---- MODULE Spec2Model ----
(***************************************************************************)
(* Model of the two Wikidata storage backends of src/storage.py:           *)
(* WikidataSQLiteStorage (relational, four tables, one transaction per     *)
(* store_entity) and WikidataTinyDBStorage (one collection of whole-entity *)
(* documents).  Python dictionaries are modelled as functions whose domain *)
(* is the set of keys that are present, so that "key absent", "empty list" *)
(* and "empty string" stay three different inputs, as they are in the      *)
(* code.  A value that may be None is wrapped: <<>> is None, <<v>> is v.   *)
(* The module also models the timing harness run_performance_comparison    *)
(* of src/main.py, and natural_language_query, whose code is not in src/,  *)
(* from sections 4.2 and 4.3 of the specification.                         *)
(***************************************************************************)
EXTENDS Integers, Sequences, FiniteSets, TLC

VARIABLES sq, td, calls, last, preSq, preTd, given, lastLabel, h

vars == <<sq, td, calls, last, preSq, preTd, given, lastLabel, h>>

(***************************************************************************)
(* Bounds                                                                  *)
(***************************************************************************)
\* number of records handed to the backends in one behaviour
MaxCalls == 3

\* length of the question list of the harness, number of timed runs of a
\* question on a backend, and number of timed runs of one harness call
MaxQuestions == 2
MaxIterations == 2
MaxRuns == 8

(***************************************************************************)
(* Python dictionaries                                                     *)
(***************************************************************************)
EmptyDict == [k \in {} |-> ""]

\* {k: v}
Entry(k, v) == [j \in {k} |-> v]

\* a key that is present when opt = <<v>> and absent when opt = <<>>
Field(k, opt) == IF opt = <<>> THEN EmptyDict ELSE Entry(k, opt[1])

\* dict.update(g) applied to f: keys of g overwrite, other keys of f stay
DictUpdate(f, g) ==
  [k \in (DOMAIN f) \cup (DOMAIN g) |-> IF k \in DOMAIN g THEN g[k] ELSE f[k]]

\* d.get(k, default)
GetOr(d, k, default) == IF k \in DOMAIN d THEN d[k] ELSE default

\* d.get(k) as an optional value: <<>> stands for None
GetOpt(d, k) == IF k \in DOMAIN d THEN <<d[k]>> ELSE <<>>

\* `k in d and d[k]` for a list-valued key
HasItems(d, k) == k \in DOMAIN d /\ d[k] # <<>>

\* Python None where it is stored as a column value
NoneVal == "None"

\* the value the lookups return when nothing is found (None)
NotFound == <<>>

RECURSIVE SeqToSet(_)
SeqToSet(s) == IF s = <<>> THEN {} ELSE {Head(s)} \cup SeqToSet(Tail(s))

(***************************************************************************)
(* Input records (the exchange format of the import)                       *)
(***************************************************************************)
EntityIds == {"Q1", "Q148"}

AliasPRC == [value |-> "PRC", language |-> "en"]
AliasZhongguo == [value |-> "Zhongguo", language |-> "zh"]

StmtCapital ==
  [property |-> [property_id |-> "P36", label |-> "capital"],
   value |-> "Beijing", entity_id |-> "Q956"]
StmtSeat ==
  [property |-> [property_id |-> "P36", label |-> "seat"], value |-> "Peking"]
StmtBare == [value |-> "1.4e9"]

\* label, 'aliases' and 'statements' of the records that are imported; for the
\* two lists <<>> is "key absent" and <<l>> is the list l (possibly empty)
Bodies ==
  { <<"China",  << <<AliasPRC>> >>,                << <<StmtCapital>> >> >>,
    <<"Cathay", << <<AliasZhongguo, AliasPRC>> >>, << <<StmtBare, StmtSeat>> >> >>,
    <<"Cathay", << <<>> >>,                        <<>> >> }

MakeRecord(idOpt, label, aliasOpt, stmtOpt) ==
  DictUpdate(DictUpdate(DictUpdate(
    [label |-> label, description |-> "country", type |-> "place"],
    Field("entity_id", idOpt)), Field("aliases", aliasOpt)),
    Field("statements", stmtOpt))

\* records with an id
GoodRecords ==
  {MakeRecord(<<i>>, b[1], b[2], b[3]) : i \in EntityIds, b \in Bodies}

\* records whose 'entity_id' is missing or empty
MalformedRecords ==
  { MakeRecord(<<>>, "China", <<>>, <<>>),
    MakeRecord(<<>>, "China", << <<AliasPRC>> >>, <<>>),
    MakeRecord(<<"">>, "China", << <<AliasPRC>> >>, <<>>) }

Records == GoodRecords \cup MalformedRecords

(***************************************************************************)
(* Relational backend: WikidataSQLiteStorage                               *)
(***************************************************************************)
\* the database file: whether the four tables exist, their rows in rowid
\* order, and the AUTOINCREMENT counters of aliases and statements
EmptyDb ==
  [schema |-> FALSE, entities |-> <<>>, aliases |-> <<>>, properties |-> {},
   statements |-> <<>>, aliasSeq |-> 0, stmtSeq |-> 0]

\* CREATE TABLE IF NOT EXISTS for the four tables
create_tables(db) == [db EXCEPT !.schema = TRUE]

\* an insert that leaves the row with the same primary key in place
InsertEntityKeepingOld(rows, row) == Append(rows, row)

\* INSERT OR REPLACE INTO entities: the row with the same primary key goes
InsertOrReplaceEntity(rows, row) ==
  LET Other(e) == e.id # row.id IN Append(SelectSeq(rows, Other), row)

\* INSERT OR IGNORE: the first label of a property stays
InsertOrIgnoreProperty(rows, row) ==
  IF \E p \in rows : p.id = row.id THEN rows ELSE rows \cup {row}

\* INSERT OR REPLACE INTO properties
InsertOrReplaceProperty(rows, row) ==
  {p \in rows : p.id # row.id} \cup {row}

\* DELETE FROM <aliases|statements> without the WHERE
DeleteEveryRow(rows, eid) == <<>>

\* DELETE FROM <aliases|statements> WHERE entity_id = ?
DeleteByEntity(rows, eid) ==
  LET Other(x) == x.entity_id # eid IN SelectSeq(rows, Other)

\* one SQL statement of the transaction applied to the tables
SqApply(db, st) ==
  CASE st.op = "upsert_entity" ->
         [db EXCEPT !.entities = InsertOrReplaceEntity(@, st.row)]
    [] st.op = "delete_aliases" ->
         [db EXCEPT !.aliases = DeleteByEntity(@, st.entity_id)]
    [] st.op = "insert_alias" ->
         [db EXCEPT !.aliases = Append(@, [id |-> db.aliasSeq + 1] @@ st.row),
                    !.aliasSeq = @ + 1]
    [] st.op = "delete_statements" ->
         [db EXCEPT !.statements = DeleteByEntity(@, st.entity_id)]
    [] st.op = "upsert_property" ->
         [db EXCEPT !.properties = InsertOrReplaceProperty(@, st.row)]
    [] st.op = "insert_statement" ->
         [db EXCEPT !.statements = Append(@, [id |-> db.stmtSeq + 1] @@ st.row),
                    !.stmtSeq = @ + 1]

\* entity_data['entity_id'] raises KeyError when the key is absent
Raise(exc) == <<[op |-> "raise", exc |-> exc]>>

\* lines 84-92: the entity row
EntityStatements(r) ==
  <<[op |-> "upsert_entity",
     row |-> [id |-> GetOr(r, "entity_id", ""), label |-> GetOr(r, "label", ""),
              description |-> GetOr(r, "description", ""),
              type |-> GetOr(r, "type", "")]]>>

\* lines 95-108: aliases are deleted and re-inserted only for a non-empty list
AliasStatements(r) ==
  IF ~HasItems(r, "aliases") THEN <<>>
  ELSE IF "entity_id" \notin DOMAIN r THEN Raise("KeyError")
  ELSE <<[op |-> "delete_aliases", entity_id |-> r.entity_id]>> \o
       [i \in 1..Len(r.aliases) |->
          [op |-> "insert_alias",
           row |-> [entity_id |-> r.entity_id,
                    value |-> GetOr(r.aliases[i], "value", ""),
                    language |-> GetOr(r.aliases[i], "language", "")]]]

\* lines 115-137: a statement without 'property' is skipped; the others
\* upsert their property and insert one statement row
RECURSIVE StatementRows(_, _)
StatementRows(eid, stmts) ==
  IF stmts = <<>> THEN <<>>
  ELSE LET s == Head(stmts) IN
       (IF "property" \in DOMAIN s
        THEN <<[op |-> "upsert_property",
                row |-> [id |-> GetOr(s.property, "property_id", ""),
                         label |-> GetOr(s.property, "label", "")]],
               [op |-> "insert_statement",
                row |-> [entity_id |-> eid,
                         property_id |-> GetOr(s.property, "property_id", ""),
                         value |-> GetOr(s, "value", ""),
                         entity_value_id |-> GetOr(s, "entity_id", NoneVal)]]>>
        ELSE <<>>) \o StatementRows(eid, Tail(stmts))

\* lines 111-137
StatementStatements(r) ==
  IF ~HasItems(r, "statements") THEN <<>>
  ELSE IF "entity_id" \notin DOMAIN r THEN Raise("KeyError")
  ELSE <<[op |-> "delete_statements", entity_id |-> r.entity_id]>> \o
       StatementRows(r.entity_id, r.statements)

\* the statements store_entity issues for a record, in order
SqProgram(r) == EntityStatements(r) \o AliasStatements(r) \o StatementStatements(r)

\* runs the program from statement i on the working copy of the tables; the
\* engine fails on statement failAt (0: on none), and on every statement when
\* the tables do not exist
RECURSIVE SqExec(_, _, _, _)
SqExec(db, prog, i, failAt) ==
  IF i > Len(prog) THEN [db |-> db, exc |-> "none"]
  ELSE IF prog[i].op = "raise" THEN [db |-> db, exc |-> prog[i].exc]
  ELSE IF ~db.schema \/ i = failAt THEN [db |-> db, exc |-> "OperationalError"]
  ELSE SqExec(SqApply(db, prog[i]), prog, i + 1, failAt)

\* `except KeyError`: an exception of the engine is not caught
ExceptKeyErrorOnly(exc) == exc = "KeyError"

\* `except Exception`: every exception the body raises is caught
ExceptClause(exc) == exc \in {"KeyError", "OperationalError"}

\* a rollback that keeps the statements executed before the failure
RollbackKeepsWork(before, work) == work

\* conn.rollback(): the tables are those before the transaction
Rollback(before, work) == before

\* store_entity: the tables after the call, whether it committed, whether it
\* raised (an uncommitted transaction is dropped when the connection closes)
SqStoreEntity(db, r, failAt) ==
  LET run == SqExec(db, SqProgram(r), 1, failAt) IN
  IF run.exc = "none"
  THEN [db |-> run.db, ok |-> TRUE, raised |-> FALSE]
  ELSE [db |-> Rollback(db, run.db), ok |-> FALSE,
        raised |-> ~ExceptClause(run.exc)]

\* get_entity_by_id: <<>> for None, <<entity>> otherwise
SqGetEntityById(db, eid) ==
  LET IsRow(e) == e.id = eid
      Mine(x) == x.entity_id = eid
      Joined(s) == s.entity_id = eid /\ \E p \in db.properties : p.id = s.property_id
      rows == SelectSeq(db.entities, IsRow)
      als == SelectSeq(db.aliases, Mine)
      sts == SelectSeq(db.statements, Joined)
      PropertyOf(s) == CHOOSE p \in db.properties : p.id = s.property_id
      Statement(s) ==
        DictUpdate([id |-> s.id,
                    property |-> [id |-> PropertyOf(s).id, label |-> PropertyOf(s).label],
                    value |-> s.value],
                   IF s.entity_value_id \notin {NoneVal, ""}
                   THEN Entry("entity_id", s.entity_value_id) ELSE EmptyDict)
  IN IF ~db.schema \/ rows = <<>> THEN NotFound
     ELSE <<[id |-> rows[1].id, label |-> rows[1].label,
             description |-> rows[1].description, type |-> rows[1].type,
             aliases |-> [i \in 1..Len(als) |->
                            [value |-> als[i].value, language |-> als[i].language]],
             statements |-> [i \in 1..Len(sts) |-> Statement(sts[i])]]>>


\* the two forms of entities_data: a list of records, or a dict whose values
\* are the records (keys in insertion order, at: key -> record)
ListOf(recs) == [isdict |-> FALSE, items |-> recs]
DictOf(keys, at) == [isdict |-> TRUE, keys |-> keys, at |-> at]

\* isinstance(entities_data, dict): list(entities_data.values())
EntitiesList(entities_data) ==
  IF entities_data.isdict
  THEN [i \in 1..Len(entities_data.keys) |-> entities_data.at[entities_data.keys[i]]]
  ELSE entities_data.items

\* a batch that stops at the first record that fails
RECURSIVE SqStoreListAborting(_, _, _)
SqStoreListAborting(db, recs, fails) ==
  IF recs = <<>> THEN [db |-> db, ok |-> <<>>, raised |-> FALSE]
  ELSE LET one == SqStoreEntity(db, Head(recs), Head(fails))
           rest == SqStoreListAborting(one.db, Tail(recs), Tail(fails))
       IN IF ~one.ok
          THEN [db |-> one.db, ok |-> [i \in 1..Len(recs) |-> FALSE], raised |-> FALSE]
          ELSE [db |-> rest.db, ok |-> <<one.ok>> \o rest.ok, raised |-> rest.raised]

\* the loop of store_entities: store_entity record by record; fails[i] is the
\* statement on which the engine fails for the i-th record (0: none)
RECURSIVE SqStoreList(_, _, _)
SqStoreList(db, recs, fails) ==
  IF recs = <<>> THEN [db |-> db, ok |-> <<>>, raised |-> FALSE]
  ELSE LET one == SqStoreEntity(db, Head(recs), Head(fails))
           rest == SqStoreList(one.db, Tail(recs), Tail(fails))
       IN IF one.raised THEN [db |-> one.db, ok |-> <<FALSE>>, raised |-> TRUE]
          ELSE [db |-> rest.db, ok |-> <<one.ok>> \o rest.ok, raised |-> rest.raised]

\* store_entities without the create_tables
SqStoreEntitiesNoCreate(db, entities_data, fails) ==
  SqStoreList(db, EntitiesList(entities_data), fails)

\* WikidataSQLiteStorage.store_entities: create_tables, the list of records,
\* the loop
SqStoreEntities(db, entities_data, fails) ==
  SqStoreList(create_tables(db), EntitiesList(entities_data), fails)

(***************************************************************************)
(* Document backend: WikidataTinyDBStorage                                 *)
(***************************************************************************)
\* the 'entities' table of the TinyDB file: the documents in insertion order
EmptyCollection == <<>>

\* entities.get(Entity.entity_id == eid): the first matching document or None
TdGetEntityById(coll, eid) ==
  LET Match(d) == "entity_id" \in DOMAIN d /\ d.entity_id = eid
      found == SelectSeq(coll, Match)
  IN IF found = <<>> THEN NotFound ELSE <<found[1]>>

\* entities.update(fields, cond): fields are merged into every matching document
TdUpdate(coll, fields, eid) ==
  [i \in 1..Len(coll) |->
     IF "entity_id" \in DOMAIN coll[i] /\ coll[i].entity_id = eid
     THEN DictUpdate(coll[i], fields) ELSE coll[i]]

\* entities.insert(document)
TdInsert(coll, doc) == Append(coll, doc)

\* store_entity: a record without a (non-empty) entity_id is skipped
TdStoreEntity(coll, r) ==
  IF "entity_id" \notin DOMAIN r \/ r.entity_id = "" THEN coll
  ELSE IF TdGetEntityById(coll, r.entity_id) # NotFound
       THEN TdUpdate(coll, r, r.entity_id)
       ELSE TdInsert(coll, r)

RECURSIVE TdStoreList(_, _)
TdStoreList(coll, recs) ==
  IF recs = <<>> THEN coll
  ELSE TdStoreList(TdStoreEntity(coll, Head(recs)), Tail(recs))

\* WikidataTinyDBStorage.store_entities: the list of records, the loop
TdStoreEntities(coll, entities_data) == TdStoreList(coll, EntitiesList(entities_data))

(***************************************************************************)
(* Sample data of _add_sample_data (labels and values transliterated)      *)
(***************************************************************************)
SampleQ148 ==
  [entity_id |-> "Q148", label |-> "Zhongguo", description |-> "country in East Asia",
   type |-> "country",
   aliases |-> <<[value |-> "People's Republic of China", language |-> "en"],
                 [value |-> "PRC", language |-> "en"],
                 [value |-> "Zhonghua Renmin Gongheguo", language |-> "zh"]>>,
   statements |->
     <<[property |-> [property_id |-> "P36", label |-> "capital"],
        entity_id |-> "Q956", value |-> "Beijing"],
       [property |-> [property_id |-> "P37", label |-> "official language"],
        value |-> "Hanyu"],
       [property |-> [property_id |-> "P1082", label |-> "population"],
        value |-> "1.4e9"]>>]

SampleQ956 ==
  [entity_id |-> "Q956", label |-> "Beijing", description |-> "capital of the PRC",
   type |-> "city",
   aliases |-> <<[value |-> "Beijing", language |-> "en"],
                 [value |-> "Peking", language |-> "en"]>>,
   statements |->
     <<[property |-> [property_id |-> "P17", label |-> "country"],
        entity_id |-> "Q148", value |-> "Zhongguo"],
       [property |-> [property_id |-> "P1082", label |-> "population"],
        value |-> "2.154e7"]>>]

\* sample_data, a dict id -> record
SampleData == DictOf(<<"Q148", "Q956">>, [Q148 |-> SampleQ148, Q956 |-> SampleQ956])

\* list(sample_data.values())
SampleRecords == EntitiesList(SampleData)

\* WikidataSQLiteStorage._add_sample_data
SqAddSampleData(db, fails) == SqStoreEntities(db, SampleData, fails)

\* a truncate that removes nothing
TdTruncateNothing(coll) == coll

\* entities.truncate()
TdTruncate(coll) == EmptyCollection

\* WikidataTinyDBStorage._add_sample_data
TdAddSampleData(coll) == TdStoreEntities(TdTruncate(coll), SampleData)

(***************************************************************************)
(* The timing harness, run_performance_comparison of src/main.py.  h holds *)
(* its local variables and its position: pc is "idle" before the call,     *)
(* "sqlite" or "tinydb" inside the timed loop of that backend, "report"    *)
(* after the loops, "returned" or "raised" at the end; q is the question   *)
(* being measured and i the number of runs of the current loop that are    *)
(* done.  log (the calls made, in order) and first (the result of the      *)
(* first run of the current question on each backend) are history          *)
(* variables.  Times are whole clock ticks and averages are fractions,     *)
(* compared exactly.                                                       *)
(***************************************************************************)
\* the elapsed time of one call: nothing, or one tick
Elapsed == {0, 1}

\* what natural_language_query may return: None (<<>>), an empty list, a
\* list of one row
QueryResults == {<<>>, << <<>> >>, << <<"row">> >>}

\* len(results) if results else 0
ResultSize(result) ==
  IF result = <<>> THEN 0 ELSE IF result[1] = <<>> THEN 0 ELSE Len(result[1])

\* the question list of length n
QuestionList(n) == [k \in 1..n |-> k]

\* num / den
Fraction(num, den) == [num |-> num, den |-> den]

\* a < b for fractions with positive denominators
Less(a, b) == a.num * b.den < b.num * a.den

\* a / b and a = b as fractions
Quotient(a, b) == Fraction(a.num * b.den, a.den * b.num)
SameFraction(a, b) == a.num * b.den = b.num * a.den

RECURSIVE Sum(_)
Sum(xs) == IF xs = <<>> THEN 0 ELSE Head(xs) + Sum(Tail(xs))

\* sum(fractions)
RECURSIVE SumFractions(_)
SumFractions(fs) ==
  IF fs = <<>> THEN Fraction(0, 1)
  ELSE LET rest == SumFractions(Tail(fs)) IN
       Fraction(Head(fs).num * rest.den + rest.num * Head(fs).den,
                Head(fs).den * rest.den)

\* sum(times) / len(times)
Average(times) == Fraction(Sum(times), Len(times))

\* sum(averages) / len(averages)
MeanOf(fs) == Fraction(SumFractions(fs).num, SumFractions(fs).den * Len(fs))

\* the count taken from every run
ResultCountOfEveryRun(i, result, count) == ResultSize(result)

\* if i == 0: count = len(results) if results else 0
ResultCount(i, result, count) == IF i = 0 THEN ResultSize(result) ELSE count

\* the two backends measured alternately, run by run
AdvanceInterleaved(pc, q, i, iterations, n) ==
  IF pc = "sqlite" THEN [pc |-> "tinydb", q |-> q, i |-> i]
  ELSE IF i + 1 < iterations THEN [pc |-> "sqlite", q |-> q, i |-> i + 1]
  ELSE IF q < n THEN [pc |-> "sqlite", q |-> q + 1, i |-> 0]
  ELSE [pc |-> "report", q |-> q, i |-> 0]

\* where the harness stands after run i of the loop of backend pc on question
\* q: `for i in range(iterations)` of SQLite, then of TinyDB, inside
\* `for query in queries`
Advance(pc, q, i, iterations, n) ==
  IF i + 1 < iterations THEN [pc |-> pc, q |-> q, i |-> i + 1]
  ELSE IF pc = "sqlite" THEN [pc |-> "tinydb", q |-> q, i |-> 0]
  ELSE IF q < n THEN [pc |-> "sqlite", q |-> q + 1, i |-> 0]
  ELSE [pc |-> "report", q |-> q, i |-> 0]

\* "SQLite" if sqlite < tinydb else "TinyDB"
FasterLabel(sqlite, tinydb) == IF Less(sqlite, tinydb) THEN "SQLite" ELSE "TinyDB"

\* one row per question, then the row of the overall averages
TableData(results) ==
  [k \in 1..Len(results.SQLite.times) |->
     [sqlite |-> results.SQLite.times[k], tinydb |-> results.TinyDB.times[k],
      faster |-> FasterLabel(results.SQLite.times[k], results.TinyDB.times[k]),
      sqlite_count |-> results.SQLite.counts[k],
      tinydb_count |-> results.TinyDB.counts[k]]]
  \o <<[sqlite |-> MeanOf(results.SQLite.times), tinydb |-> MeanOf(results.TinyDB.times),
        faster |-> FasterLabel(MeanOf(results.SQLite.times), MeanOf(results.TinyDB.times)),
        sqlite_count |-> Fraction(Sum(results.SQLite.counts), Len(results.SQLite.counts)),
        tinydb_count |-> Fraction(Sum(results.TinyDB.counts), Len(results.TinyDB.counts))]>>

\* the closing line: who is faster on average and how many times
Conclusion(sqlite_avg_time, tinydb_avg_time) ==
  IF Less(sqlite_avg_time, tinydb_avg_time)
  THEN [faster |-> "SQLite", times |-> Quotient(tinydb_avg_time, sqlite_avg_time)]
  ELSE [faster |-> "TinyDB", times |-> Quotient(sqlite_avg_time, tinydb_avg_time)]

\* the harness before it is called
HarnessIdle ==
  [pc |-> "idle", queries |-> <<>>, iterations |-> 0, q |-> 0, i |-> 0,
   sqlite_times |-> <<>>, sqlite_result_count |-> 0,
   tinydb_times |-> <<>>, tinydb_result_count |-> 0,
   results |-> [SQLite |-> [times |-> <<>>, counts |-> <<>>],
                TinyDB |-> [times |-> <<>>, counts |-> <<>>]],
   table |-> <<>>, conclusion |-> <<>>, exc |-> "none",
   log |-> <<>>, first |-> [SQLite |-> <<>>, TinyDB |-> <<>>]]

(***************************************************************************)
(* The state machine.  main.py hands every import to both storages, so a   *)
(* call is applied to the relational and to the document backend.  `last`  *)
(* records the latest call and its outcome on the relational backend,      *)
(* preSq and preTd the two stores before it, `given` the entity ids of all *)
(* records handed over so far, and lastLabel the label of the latest       *)
(* committed statement of each property.                                   *)
(***************************************************************************)
\* the statement on which the storage engine may fail while one record of a
\* single store_entity is written: none (0) or any of them
FailPoints(r) == 0..Len(SqProgram(r))

\* in a batch: none, or the last statement of the record
BatchFailPoints(r) == {0, Len(SqProgram(r))}

\* one choice per record of a batch, at most one engine failure in a batch
BatchFails(recs) ==
  {f \in [1..Len(recs) -> UNION {BatchFailPoints(recs[i]) : i \in 1..Len(recs)}] :
     /\ \A i \in 1..Len(recs) : f[i] \in BatchFailPoints(recs[i])
     /\ \A i, j \in 1..Len(recs) : (f[i] # 0 /\ f[j] # 0) => i = j}

\* batches of two or more records (a batch of one record is create_tables
\* followed by store_entity)
Batches(n) == UNION {[1..k -> Records] : k \in 2..n}

\* dicts id -> record of two or more good records, in either key order
Mappings(n) ==
  {DictOf(keys, at) :
     keys \in {k \in UNION {[1..m -> EntityIds] : m \in 2..n} :
                 \A i, j \in 1..Len(k) : k[i] = k[j] => i = j},
     at \in {f \in [EntityIds -> GoodRecords] : \A id \in EntityIds : f[id].entity_id = id}}

\* what store_entities is called with
BatchInputs(n) == {ListOf(recs) : recs \in Batches(n)} \cup Mappings(n)

\* the entity ids carried by the records of a call
IdsOf(recs) ==
  {r.entity_id : r \in {x \in SeqToSet(recs) : "entity_id" \in DOMAIN x}}

\* property id -> label of the statements of a record, later ones overwriting
RECURSIVE StatementLabels(_, _)
StatementLabels(labels, stmts) ==
  IF stmts = <<>> THEN labels
  ELSE LET s == Head(stmts) IN
       StatementLabels(
         IF "property" \in DOMAIN s
         THEN DictUpdate(labels, Entry(GetOr(s.property, "property_id", ""),
                                       GetOr(s.property, "label", "")))
         ELSE labels,
         Tail(stmts))

\* the same over the records of a call that the relational backend committed
RECURSIVE LatestLabels(_, _, _)
LatestLabels(labels, recs, ok) ==
  IF recs = <<>> \/ ok = <<>> THEN labels
  ELSE LatestLabels(
         IF Head(ok) THEN StatementLabels(labels, GetOr(Head(recs), "statements", <<>>))
         ELSE labels,
         Tail(recs), Tail(ok))

Init ==
  /\ sq = EmptyDb
  /\ td = EmptyCollection
  /\ calls = 0
  /\ last = [op |-> "init", mapping |-> FALSE, recs |-> <<>>, injected |-> <<>>,
             ok |-> <<>>, raised |-> FALSE]
  /\ preSq = EmptyDb
  /\ preTd = EmptyCollection
  /\ given = {}
  /\ lastLabel = EmptyDict
  /\ h = HarnessIdle

\* what every call leaves behind: the call, for which records an engine
\* failure was injected, its outcome, and the stores before
Called(op, entities_data, fails, out, n) ==
  /\ last' = [op |-> op, mapping |-> entities_data.isdict,
              recs |-> EntitiesList(entities_data),
              injected |-> [i \in 1..Len(fails) |-> fails[i] # 0],
              ok |-> out.ok, raised |-> out.raised]
  /\ calls' = calls + n
  /\ preSq' = sq
  /\ preTd' = td
  /\ given' = given \cup IdsOf(EntitiesList(entities_data))
  /\ lastLabel' = LatestLabels(lastLabel, EntitiesList(entities_data), out.ok)
  /\ UNCHANGED h

CreateTables ==
  /\ calls < MaxCalls
  /\ sq' = create_tables(sq)
  /\ td' = td
  /\ Called("create_tables", ListOf(<<>>), <<>>, [ok |-> <<>>, raised |-> FALSE], 1)

StoreEntity(r, failAt) ==
  /\ calls < MaxCalls
  /\ LET out == SqStoreEntity(sq, r, failAt) IN
       /\ sq' = out.db
       /\ Called("store_entity", ListOf(<<r>>), <<failAt>>,
                 [ok |-> <<out.ok>>, raised |-> out.raised], 1)
  /\ td' = TdStoreEntity(td, r)

StoreEntities(entities_data, fails) ==
  /\ calls + Len(EntitiesList(entities_data)) <= MaxCalls
  /\ LET out == SqStoreEntities(sq, entities_data, fails) IN
       /\ sq' = out.db
       /\ Called("store_entities", entities_data, fails, out,
                 Len(EntitiesList(entities_data)))
  /\ td' = TdStoreEntities(td, entities_data)

AddSampleData(fails) ==
  /\ calls < MaxCalls
  /\ LET out == SqAddSampleData(sq, fails) IN
       /\ sq' = out.db
       /\ Called("_add_sample_data", SampleData, fails, out, 1)
  /\ td' = TdAddSampleData(td)

Next ==
  \/ CreateTables
  \/ \E r \in Records : \E f \in FailPoints(r) : StoreEntity(r, f)
  \/ \E entities_data \in BatchInputs(MaxCalls - calls) :
       \E fails \in BatchFails(EntitiesList(entities_data)) :
         StoreEntities(entities_data, fails)
  \/ \E fails \in BatchFails(SampleRecords) : AddSampleData(fails)

Spec == Init /\ [][Next]_vars

\* the calls that build a store without engine failures, for the reads that
\* are checked over every query and limit
SearchNext ==
  \/ CreateTables
  \/ \E r \in Records : StoreEntity(r, 0)
  \/ AddSampleData([i \in 1..Len(SampleRecords) |-> 0])

SearchSpec == Init /\ [][SearchNext]_vars

\* natural_language_query reads; the stores are as they were
StoresUnchanged == UNCHANGED <<sq, td, calls, last, preSq, preTd, given, lastLabel>>

\* run_performance_comparison(sqlite_storage, tinydb_storage, queries,
\* iterations) is called with n questions
Start(n, iterations) ==
  /\ h.pc = "idle"
  /\ 2 * n * iterations <= MaxRuns
  /\ h' = [h EXCEPT !.pc = IF n = 0 THEN "report" ELSE "sqlite",
                    !.queries = QuestionList(n),
                    !.iterations = iterations, !.q = 1, !.i = 0]
  /\ StoresUnchanged

\* one timed run on the relational backend returns; the last run of the loop
\* also records the average and the count of the question
SqliteRun(elapsed, result) ==
  /\ h.pc = "sqlite"
  /\ LET times == IF h.i = 0 THEN <<elapsed>> ELSE Append(h.sqlite_times, elapsed)
         count == ResultCount(h.i, result, IF h.i = 0 THEN 0 ELSE h.sqlite_result_count)
         next == Advance("sqlite", h.q, h.i, h.iterations, Len(h.queries))
     IN h' = [h EXCEPT
                !.sqlite_times = times,
                !.sqlite_result_count = count,
                !.results.SQLite =
                   IF next.pc # "sqlite"
                   THEN [times |-> Append(@.times, Average(times)),
                         counts |-> Append(@.counts, count)]
                   ELSE @,
                !.pc = next.pc, !.q = next.q, !.i = next.i,
                !.log = Append(@, [q |-> h.q, backend |-> "SQLite", run |-> h.i]),
                !.first.SQLite = IF h.i = 0 THEN result ELSE @]
  /\ StoresUnchanged

\* the same on the document backend
TinydbRun(elapsed, result) ==
  /\ h.pc = "tinydb"
  /\ LET times == IF h.i = 0 THEN <<elapsed>> ELSE Append(h.tinydb_times, elapsed)
         count == ResultCount(h.i, result, IF h.i = 0 THEN 0 ELSE h.tinydb_result_count)
         next == Advance("tinydb", h.q, h.i, h.iterations, Len(h.queries))
     IN h' = [h EXCEPT
                !.tinydb_times = times,
                !.tinydb_result_count = count,
                !.results.TinyDB =
                   IF next.pc # "tinydb"
                   THEN [times |-> Append(@.times, Average(times)),
                         counts |-> Append(@.counts, count)]
                   ELSE @,
                !.pc = next.pc, !.q = next.q, !.i = next.i,
                !.log = Append(@, [q |-> h.q, backend |-> "TinyDB", run |-> h.i]),
                !.first.TinyDB = IF h.i = 0 THEN result ELSE @]
  /\ StoresUnchanged

\* natural_language_query raises inside a timed run: no try statement
\* encloses the call, the exception leaves run_performance_comparison
QueryRaises ==
  /\ h.pc \in {"sqlite", "tinydb"}
  /\ h' = [h EXCEPT !.pc = "raised", !.exc = "QueryError",
                    !.log = Append(@, [q |-> h.q,
                                       backend |-> IF h.pc = "sqlite" THEN "SQLite"
                                                   ELSE "TinyDB",
                                       run |-> h.i])]
  /\ StoresUnchanged

\* after the loops: the overall averages (a division by the number of
\* questions), the table, the closing line (a division by the lower
\* average), the return
Report ==
  /\ h.pc = "report"
  /\ LET sqlite_avg_time == MeanOf(h.results.SQLite.times)
         tinydb_avg_time == MeanOf(h.results.TinyDB.times)
         line == Conclusion(sqlite_avg_time, tinydb_avg_time)
     IN IF Len(h.results.SQLite.times) = 0
        THEN h' = [h EXCEPT !.pc = "raised", !.exc = "ZeroDivisionError"]
        ELSE IF line.times.den = 0
        THEN h' = [h EXCEPT !.pc = "raised", !.exc = "ZeroDivisionError",
                            !.table = TableData(h.results)]
        ELSE h' = [h EXCEPT !.pc = "returned", !.table = TableData(h.results),
                            !.conclusion = <<line>>]
  /\ StoresUnchanged

HarnessNext ==
  \/ \E n \in 0..MaxQuestions : \E iterations \in 1..MaxIterations : Start(n, iterations)
  \/ \E elapsed \in Elapsed : \E result \in QueryResults : SqliteRun(elapsed, result)
  \/ \E elapsed \in Elapsed : \E result \in QueryResults : TinydbRun(elapsed, result)
  \/ QueryRaises
  \/ Report

HarnessSpec == Init /\ [][HarnessNext]_vars

(***************************************************************************)
(* Text.  A string is searched character by character: Chars gives the     *)
(* characters of every label, description, alias value and query that      *)
(* occurs.                                                                 *)
(***************************************************************************)
Chars(s) ==
  CASE s = "" -> <<>>
  [] s = "China" -> <<"C", "h", "i", "n", "a">>
  [] s = "Cathay" -> <<"C", "a", "t", "h", "a", "y">>
  [] s = "country" -> <<"c", "o", "u", "n", "t", "r", "y">>
  [] s = "PRC" -> <<"P", "R", "C">>
  [] s = "Zhongguo" -> <<"Z", "h", "o", "n", "g", "g", "u", "o">>
  [] s = "country in East Asia" -> <<"c", "o", "u", "n", "t", "r", "y", " ", "i", "n", " ", "E", "a", "s", "t", " ", "A", "s", "i", "a">>
  [] s = "People's Republic of China" -> <<"P", "e", "o", "p", "l", "e", "'", "s", " ", "R", "e", "p", "u", "b", "l", "i", "c", " ", "o", "f", " ", "C", "h", "i", "n", "a">>
  [] s = "Zhonghua Renmin Gongheguo" -> <<"Z", "h", "o", "n", "g", "h", "u", "a", " ", "R", "e", "n", "m", "i", "n", " ", "G", "o", "n", "g", "h", "e", "g", "u", "o">>
  [] s = "Beijing" -> <<"B", "e", "i", "j", "i", "n", "g">>
  [] s = "capital of the PRC" -> <<"c", "a", "p", "i", "t", "a", "l", " ", "o", "f", " ", "t", "h", "e", " ", "P", "R", "C">>
  [] s = "Peking" -> <<"P", "e", "k", "i", "n", "g">>
  [] s = "prc" -> <<"p", "r", "c">>
  [] s = "CHINA" -> <<"C", "H", "I", "N", "A">>
  [] s = "o" -> <<"o">>
  [] s = "zz" -> <<"z", "z">>
  [] s = "What is the population of Atlantis?" -> <<"W", "h", "a", "t", " ", "i", "s", " ", "t", "h", "e", " ", "p", "o", "p", "u", "l", "a", "t", "i", "o", "n", " ", "o", "f", " ", "A", "t", "l", "a", "n", "t", "i", "s", "?">>
  [] s = "What is the altitude of China?" -> <<"W", "h", "a", "t", " ", "i", "s", " ", "t", "h", "e", " ", "a", "l", "t", "i", "t", "u", "d", "e", " ", "o", "f", " ", "C", "h", "i", "n", "a", "?">>
  [] s = "What is the population of China?" -> <<"W", "h", "a", "t", " ", "i", "s", " ", "t", "h", "e", " ", "p", "o", "p", "u", "l", "a", "t", "i", "o", "n", " ", "o", "f", " ", "C", "h", "i", "n", "a", "?">>
  [] s = "What is the capital of China?" -> <<"W", "h", "a", "t", " ", "i", "s", " ", "t", "h", "e", " ", "c", "a", "p", "i", "t", "a", "l", " ", "o", "f", " ", "C", "h", "i", "n", "a", "?">>
  [] s = "What is China's capital?" -> <<"W", "h", "a", "t", " ", "i", "s", " ", "C", "h", "i", "n", "a", "'", "s", " ", "c", "a", "p", "i", "t", "a", "l", "?">>
  [] s = "population" -> <<"p", "o", "p", "u", "l", "a", "t", "i", "o", "n">>
  [] s = "capital" -> <<"c", "a", "p", "i", "t", "a", "l">>
  [] s = "official language" -> <<"o", "f", "f", "i", "c", "i", "a", "l", " ", "l", "a", "n", "g", "u", "a", "g", "e">>
  [] s = "what is the " -> <<"w", "h", "a", "t", " ", "i", "s", " ", "t", "h", "e", " ">>
  [] s = " of " -> <<" ", "o", "f", " ">>
  [] s = "what is " -> <<"w", "h", "a", "t", " ", "i", "s", " ">>
  [] s = "'s " -> <<"'", "s", " ">>

\* case folding of LIKE and of re.IGNORECASE on the letters that occur
Lower(c) ==
  CASE c = "A" -> "a"
    [] c = "B" -> "b"
    [] c = "C" -> "c"
    [] c = "E" -> "e"
    [] c = "G" -> "g"
    [] c = "H" -> "h"
    [] c = "I" -> "i"
    [] c = "N" -> "n"
    [] c = "P" -> "p"
    [] c = "R" -> "r"
    [] c = "Z" -> "z"
    [] c = "W" -> "w"
    [] OTHER -> c

LowerSeq(t) == [i \in 1..Len(t) |-> Lower(t[i])]

\* the search words
Queries == {"prc", "CHINA", "o", "zz", ""}

\* the values of `limit` (10 is the default)
Limits == {0, 1, 2, 10}

\* SQLite `text LIKE pattern` from position i of the text and position j of
\* the pattern: % is any run of characters, _ any one character, letters
\* compare without case
RECURSIVE LikeFrom(_, _, _, _)
LikeFrom(t, p, i, j) ==
  IF j > Len(p) THEN i > Len(t)
  ELSE IF p[j] = "%"
       THEN LikeFrom(t, p, i, j + 1) \/ (i <= Len(t) /\ LikeFrom(t, p, i + 1, j))
       ELSE /\ i <= Len(t)
            /\ (p[j] = "_" \/ Lower(p[j]) = Lower(t[i]))
            /\ LikeFrom(t, p, i + 1, j + 1)

Like(t, p) == LikeFrom(t, p, 1, 1)

\* column LIKE '%query%', NULL (NoneVal) never matching
LikeContains(column, query) ==
  column # NoneVal /\ Like(Chars(column), <<"%">> \o Chars(query) \o <<"%">>)

\* re.search(query, text, re.IGNORECASE) for a query without metacharacters:
\* the first position from i at which the query matches, if any
RECURSIVE ReSearchFrom(_, _, _)
ReSearchFrom(q, t, i) ==
  /\ i + Len(q) <= Len(t) + 1
  /\ \/ \A k \in 1..Len(q) : Lower(q[k]) = Lower(t[i + k - 1])
     \/ ReSearchFrom(q, t, i + 1)

ReSearch(q, t) == ReSearchFrom(q, t, 1)

\* the rows of a sequence without repetitions, first occurrences kept
RECURSIVE Distinct(_)
Distinct(rows) ==
  IF rows = <<>> THEN <<>>
  ELSE LET front == Distinct(SubSeq(rows, 1, Len(rows) - 1))
           r == rows[Len(rows)]
       IN IF \E i \in 1..Len(front) : front[i] = r THEN front ELSE Append(front, r)

\* LIMIT n: a negative n is no limit
SqlLimit(rows, n) ==
  IF n < 0 \/ n >= Len(rows) THEN rows ELSE SubSeq(rows, 1, n)

\* rows[:n]
Slice(rows, n) ==
  IF n >= Len(rows) THEN rows
  ELSE IF n >= 0 THEN SubSeq(rows, 1, n)
  ELSE IF Len(rows) + n > 0 THEN SubSeq(rows, 1, Len(rows) + n) ELSE <<>>

\* entities e LEFT JOIN aliases a ON e.id = a.entity_id: one row per alias of
\* an entity, and one row with a NULL alias for an entity without aliases
RECURSIVE LeftJoinAliases(_, _)
LeftJoinAliases(ents, aliases) ==
  IF ents = <<>> THEN <<>>
  ELSE LET e == Head(ents)
           Mine(a) == a.entity_id = e.id
           als == SelectSeq(aliases, Mine)
       IN (IF als = <<>> THEN <<[e |-> e, alias |-> NoneVal]>>
           ELSE [i \in 1..Len(als) |-> [e |-> e, alias |-> als[i].value]])
          \o LeftJoinAliases(Tail(ents), aliases)

\* the join without the DISTINCT
SqSearchWithDuplicates(db, query, limit) ==
  LET Where(j) == \/ LikeContains(j.e.label, query)
                  \/ LikeContains(j.e.description, query)
                  \/ LikeContains(j.alias, query)
      hits == SelectSeq(LeftJoinAliases(db.entities, db.aliases), Where)
  IN IF ~db.schema THEN <<>>
     ELSE SqlLimit([i \in 1..Len(hits) |->
                      [id |-> hits[i].e.id, label |-> hits[i].e.label,
                       description |-> hits[i].e.description]], limit)

\* WikidataSQLiteStorage.search_entities; an exception (no tables) gives []
SqSearchEntities(db, query, limit) ==
  LET Where(j) == \/ LikeContains(j.e.label, query)
                  \/ LikeContains(j.e.description, query)
                  \/ LikeContains(j.alias, query)
      hits == SelectSeq(LeftJoinAliases(db.entities, db.aliases), Where)
  IN IF ~db.schema THEN <<>>
     ELSE SqlLimit(Distinct([i \in 1..Len(hits) |->
                               [id |-> hits[i].e.id, label |-> hits[i].e.label,
                                description |-> hits[i].e.description]]), limit)

\* Entity.<field>.search(query, flags=re.IGNORECASE): the field is present
\* and matches
TdFieldSearch(doc, field, query) ==
  field \in DOMAIN doc /\ ReSearch(Chars(query), Chars(doc[field]))

\* WikidataTinyDBStorage.search_entities: label or description matches
TdSearchEntities(coll, query, limit) ==
  LET Hit(d) == TdFieldSearch(d, "label", query) \/ TdFieldSearch(d, "description", query)
      results == Slice(SelectSeq(coll, Hit), limit)
  IN [i \in 1..Len(results) |->
        [id |-> GetOr(results[i], "entity_id", NoneVal),
         label |-> GetOr(results[i], "label", NoneVal),
         description |-> GetOr(results[i], "description", NoneVal)]]

(***************************************************************************)
(* natural_language_query, as section 4.2 and 4.3 of the specification     *)
(* describe it: the question is normalised, matched against the ordered    *)
(* templates, its attribute is looked up in the Property Lexicon and its   *)
(* subject is resolved to an entity; the statements of that entity with    *)
(* the property are the answer.                                            *)
(***************************************************************************)
\* phrase -> property id, in declaration order
PropertyLexicon ==
  <<[phrase |-> "population", id |-> "P1082"],
    [phrase |-> "capital", id |-> "P36"],
    [phrase |-> "official language", id |-> "P37"]>>

\* lower case, punctuation stripped
Normalize(question) ==
  LET Kept(c) == c \notin {"?", ".", ",", "!"}
  IN SelectSeq(LowerSeq(Chars(question)), Kept)

\* the first position from `from` at which pat occurs in t, 0 if none
RECURSIVE IndexOf(_, _, _)
IndexOf(t, pat, from) ==
  IF from + Len(pat) - 1 > Len(t) THEN 0
  ELSE IF SubSeq(t, from, from + Len(pat) - 1) = pat THEN from
  ELSE IndexOf(t, pat, from + 1)

\* "what is the <attribute> of <subject>", then "what is <subject>'s
\* <attribute>": the spans of the first template that matches, <<>> if none
ParseQuestion(t) ==
  LET the == Chars("what is the ")
      of == IndexOf(t, Chars(" of "), Len(the) + 1)
      is == Chars("what is ")
      s == IndexOf(t, Chars("'s "), Len(is) + 1)
  IN IF IndexOf(t, the, 1) = 1 /\ of > 0
     THEN <<[attribute |-> SubSeq(t, Len(the) + 1, of - 1),
             subject |-> SubSeq(t, of + 4, Len(t))]>>
     ELSE IF IndexOf(t, is, 1) = 1 /\ s > 0
     THEN <<[attribute |-> SubSeq(t, s + 3, Len(t)),
             subject |-> SubSeq(t, Len(is) + 1, s - 1)]>>
     ELSE <<>>

\* the longest lexicon phrase contained in the attribute span, the earlier
\* one on a tie; <<>> when there is none
ResolveAttribute(span) ==
  LET In(k) == IndexOf(span, Chars(PropertyLexicon[k].phrase), 1) > 0
      Size(k) == Len(Chars(PropertyLexicon[k].phrase))
      hits == {k \in 1..Len(PropertyLexicon) : In(k)}
  IN IF hits = {} THEN <<>>
     ELSE <<PropertyLexicon[CHOOSE k \in hits : \A j \in hits :
                              Size(k) > Size(j) \/ (Size(k) = Size(j) /\ k <= j)].id>>

\* a resolver that answers with the first entity when nothing matches
ResolveSubjectOrFirst(ents, span) ==
  IF ents = <<>> THEN <<>> ELSE <<ents[1].id>>

\* the Entity Resolver over ents, a sequence of [id, label, aliases]: exact
\* label, then exact alias, then label containing the span; <<>> when none
ResolveSubject(ents, span) ==
  LET Text(x) == LowerSeq(Chars(x))
      First(S) == CHOOSE i \in S : \A j \in S : i <= j
      exact == {i \in 1..Len(ents) : Text(ents[i].label) = span}
      alias == {i \in 1..Len(ents) : \E a \in ents[i].aliases : Text(a) = span}
      part == {i \in 1..Len(ents) : IndexOf(Text(ents[i].label), span, 1) > 0}
  IN IF exact # {} THEN <<ents[First(exact)].id>>
     ELSE IF alias # {} THEN <<ents[First(alias)].id>>
     ELSE IF part # {} THEN <<ents[First(part)].id>>
     ELSE <<>>

\* what the resolver sees of each backend, in its native order
SqResolverView(db) ==
  IF ~db.schema THEN <<>>
  ELSE [i \in 1..Len(db.entities) |->
          [id |-> db.entities[i].id, label |-> db.entities[i].label,
           aliases |-> {a.value : a \in {x \in SeqToSet(db.aliases) :
                                           x.entity_id = db.entities[i].id}}]]
TdResolverView(coll) ==
  [i \in 1..Len(coll) |->
     [id |-> coll[i].entity_id, label |-> GetOr(coll[i], "label", ""),
      aliases |-> {a.value : a \in SeqToSet(GetOr(coll[i], "aliases", <<>>))}]]

\* the entity ids the statements of entity `found` refer to
ReferencedIds(found) ==
  IF found = <<>> THEN {}
  ELSE {st.entity_id : st \in {x \in SeqToSet(GetOr(found[1], "statements", <<>>)) :
                                  "entity_id" \in DOMAIN x}}

\* the (property label, value) pairs of the statements of entity `found` with
\* property pid; a reference is shown by the label of the entity it names
\* when that entity is stored (refs: referenced id -> get_entity_by_id of it)
AnswerPairs(found, pid, idKey, refs) ==
  LET Has(st) == "property" \in DOMAIN st /\ GetOr(st.property, idKey, "") = pid
      sts == IF found = <<>> THEN <<>> ELSE SelectSeq(GetOr(found[1], "statements", <<>>), Has)
      Shown(st) == IF "entity_id" \in DOMAIN st /\ refs[st.entity_id] # NotFound
                   THEN GetOr(refs[st.entity_id][1], "label", "")
                   ELSE GetOr(st, "value", "")
  IN [i \in 1..Len(sts) |-> <<GetOr(sts[i].property, "label", ""), Shown(sts[i])>>]

\* natural_language_query on the relational and on the document backend
SqNaturalLanguageQuery(db, question) ==
  LET parsed == ParseQuestion(Normalize(question))
      pid == IF parsed = <<>> THEN <<>> ELSE ResolveAttribute(parsed[1].attribute)
      eid == IF parsed = <<>> THEN <<>>
             ELSE ResolveSubject(SqResolverView(db), parsed[1].subject)
      Get(id) == SqGetEntityById(db, id)
  IN IF pid = <<>> \/ eid = <<>> THEN <<>>
     ELSE AnswerPairs(Get(eid[1]), pid[1], "id",
                      [id \in ReferencedIds(Get(eid[1])) |-> Get(id)])
TdNaturalLanguageQuery(coll, question) ==
  LET parsed == ParseQuestion(Normalize(question))
      pid == IF parsed = <<>> THEN <<>> ELSE ResolveAttribute(parsed[1].attribute)
      eid == IF parsed = <<>> THEN <<>>
             ELSE ResolveSubject(TdResolverView(coll), parsed[1].subject)
      Get(id) == TdGetEntityById(coll, id)
  IN IF pid = <<>> \/ eid = <<>> THEN <<>>
     ELSE AnswerPairs(Get(eid[1]), pid[1], "property_id",
                      [id \in ReferencedIds(Get(eid[1])) |-> Get(id)])

(***************************************************************************)
(* Views used by the properties                                            *)
(***************************************************************************)
LookupIds == {"", "Q1", "Q148", "Q956", "Q42"}

HasId(r) == "entity_id" \in DOMAIN r /\ r.entity_id # ""

\* the aliases of a record, a document or a relational entity, as a set
AliasSet(e) == SeqToSet(GetOr(e, "aliases", <<>>))

\* (property id, value, referenced entity id) of one statement; idKey is the
\* name of the property id field ('property_id' in records and documents, 'id'
\* in the entities the relational backend returns)
StatementTriple(s, idKey) ==
  [property_id |-> IF "property" \in DOMAIN s THEN GetOpt(s.property, idKey) ELSE <<>>,
   value |-> GetOpt(s, "value"),
   entity_id |-> GetOpt(s, "entity_id")]

StatementSet(e, idKey) ==
  {StatementTriple(s, idKey) : s \in SeqToSet(GetOr(e, "statements", <<>>))}

\* the statements of a record that name a property
NamedStatementSet(r) ==
  {StatementTriple(s, "property_id") :
     s \in {x \in SeqToSet(GetOr(r, "statements", <<>>)) : "property" \in DOMAIN x}}

\* the latest call was store_entity(r): r
LastRecord == last.recs[1]

\* the latest call was a store_entity that the relational backend committed
StoredOne == last.op = "store_entity" /\ last.ok[1]

\* what get_entity_by_id returns now and returned before the latest call
SqNow(id) == SqGetEntityById(sq, id)
SqBefore(id) == SqGetEntityById(preSq, id)
TdNow(id) == TdGetEntityById(td, id)
TdBefore(id) == TdGetEntityById(preTd, id)

\* e carries exactly the aliases and (named) statements of record r
CarriesListsOf(e, r, idKey) ==
  /\ AliasSet(e) = AliasSet(r)
  /\ StatementSet(e, idKey) \subseteq StatementSet(r, "property_id")
  /\ NamedStatementSet(r) \subseteq StatementSet(e, idKey)

(***************************************************************************)
(* Properties                                                              *)
(***************************************************************************)
\* C1 (upsert-replace): after store_entity(r2) on an id that was already
\* stored, get_entity_by_id returns exactly r2's aliases and statements in
\* both backends; nothing of the earlier record survives.
C1_UpsertReplace ==
  (StoredOne /\ HasId(LastRecord)
     /\ SqBefore(LastRecord.entity_id) # NotFound
     /\ TdBefore(LastRecord.entity_id) # NotFound)
  => /\ SqNow(LastRecord.entity_id) # NotFound
     /\ CarriesListsOf(SqNow(LastRecord.entity_id)[1], LastRecord, "id")
     /\ TdNow(LastRecord.entity_id) # NotFound
     /\ CarriesListsOf(TdNow(LastRecord.entity_id)[1], LastRecord, "property_id")

\* C2 (round trip): after a record with an id is stored, get_entity_by_id on
\* its id returns the record's label, description and type, its alias set and
\* its statement set, in each backend.
RoundTrip(e, r, idKey) ==
  /\ GetOpt(e, "label") = GetOpt(r, "label")
  /\ GetOpt(e, "description") = GetOpt(r, "description")
  /\ GetOpt(e, "type") = GetOpt(r, "type")
  /\ CarriesListsOf(e, r, idKey)

C2_RoundTrip ==
  (StoredOne /\ HasId(LastRecord))
  => /\ SqNow(LastRecord.entity_id) # NotFound
     /\ RoundTrip(SqNow(LastRecord.entity_id)[1], LastRecord, "id")
     /\ TdNow(LastRecord.entity_id) # NotFound
     /\ RoundTrip(TdNow(LastRecord.entity_id)[1], LastRecord, "property_id")

\* C3 (malformed record): store_entity on a record without an entity id
\* raises nothing and leaves both stores exactly as they were.
C3_MalformedSkipped ==
  (last.op = "store_entity" /\ ~HasId(LastRecord))
  => (sq = preSq /\ td = preTd /\ ~last.raised)

\* C4 (atomic store, relational): when store_entity fails at any step, the
\* four tables are exactly as before the call and nothing is raised.
C4_AtomicStore ==
  (last.op = "store_entity" /\ ~last.ok[1]) => (sq = preSq /\ ~last.raised)

\* a store_entity that failed on a relational store that has its tables and
\* holds entities
C4_Witness ==
  /\ last.op = "store_entity" /\ ~last.ok[1] /\ ~last.raised
  /\ preSq.schema /\ preSq.entities # <<>> /\ preSq.aliases # <<>>

\* C5 (per-entity transactions in a batch, relational): when records of a
\* store_entities batch fail, every record with an id that the engine did
\* not fail on is committed, and the tables are those obtained by storing
\* the batch without the failed records.
RECURSIVE Committed(_, _)
Committed(recs, ok) ==
  IF recs = <<>> THEN <<>>
  ELSE (IF Head(ok) THEN <<Head(recs)>> ELSE <<>>) \o Committed(Tail(recs), Tail(ok))

NoFailure(recs) == [i \in 1..Len(recs) |-> 0]

C5_BatchIsolation ==
  (last.op = "store_entities" /\ \E k \in 1..Len(last.ok) : ~last.ok[k])
  => /\ ~last.raised
     /\ Len(last.ok) = Len(last.recs)
     /\ \A i \in 1..Len(last.recs) :
          (HasId(last.recs[i]) /\ ~last.injected[i]) => last.ok[i]
     /\ sq = SqStoreEntities(preSq, ListOf(Committed(last.recs, last.ok)),
                             NoFailure(Committed(last.recs, last.ok))).db

\* a batch of three whose second record, a record with an id, failed in the
\* engine while the first and the third were committed
C5_Witness ==
  /\ last.op = "store_entities" /\ last.ok = <<TRUE, FALSE, TRUE>>
  /\ last.injected[2] /\ HasId(last.recs[2])
  /\ sq.entities # <<>>

\* C6 (not-found lookup): in each backend get_entity_by_id returns None for
\* every id that no stored record carried.
C6_NeverStoredNotFound ==
  \A id \in LookupIds \ given : SqNow(id) = NotFound /\ TdNow(id) = NotFound

\* C7 (entity id uniqueness): each backend holds at most one entity per
\* entity id: one row of the entities table, one document of the collection.
C7_UniqueIds ==
  /\ \A i, j \in 1..Len(sq.entities) :
       sq.entities[i].id = sq.entities[j].id => i = j
  /\ \A i, j \in 1..Len(td) :
       GetOpt(td[i], "entity_id") = GetOpt(td[j], "entity_id") => i = j

\* a committed store_entity on an id both backends already held, next to
\* another entity
C7_Witness ==
  /\ StoredOne /\ HasId(LastRecord)
  /\ SqBefore(LastRecord.entity_id) # NotFound
  /\ TdBefore(LastRecord.entity_id) # NotFound
  /\ Len(sq.entities) >= 2 /\ Len(td) >= 2

\* C8 (document upsert overwrites the whole document): after store_entity(r2)
\* on an id that already has a document, the stored document is r2.
C8_DocumentOverwritten ==
  (last.op = "store_entity" /\ HasId(LastRecord)
     /\ TdBefore(LastRecord.entity_id) # NotFound)
  => TdNow(LastRecord.entity_id) = <<LastRecord>>

\* C9 (cross-backend interchangeability): after the same calls, an id found
\* in both backends yields entities with equal id, label, description, type,
\* alias set and statement set under the same field names.
SameEntity(s, t) ==
  /\ GetOpt(s, "id") = GetOpt(t, "id")
  /\ GetOpt(s, "label") = GetOpt(t, "label")
  /\ GetOpt(s, "description") = GetOpt(t, "description")
  /\ GetOpt(s, "type") = GetOpt(t, "type")
  /\ AliasSet(s) = AliasSet(t)
  /\ StatementSet(s, "id") = StatementSet(t, "id")

C9_Interchangeable ==
  \A id \in LookupIds :
    (SqNow(id) # NotFound /\ TdNow(id) # NotFound)
    => SameEntity(SqNow(id)[1], TdNow(id)[1])

Contains(text, query) ==
  LET t == LowerSeq(Chars(text))
      q == LowerSeq(Chars(query))
  IN \E i \in 0..Len(t) : i + Len(q) <= Len(t) /\ SubSeq(t, i + 1, i + Len(q)) = q

\* entity e, as get_entity_by_id returns it, has the query in its label, its
\* description or one of its alias values
MatchesQuery(e, query) ==
  \/ ("label" \in DOMAIN e /\ Contains(e.label, query))
  \/ ("description" \in DOMAIN e /\ Contains(e.description, query))
  \/ \E a \in AliasSet(e) : "value" \in DOMAIN a /\ Contains(a.value, query)

\* the ids of the entities a backend holds, and of those that match
SqStoredIds == {id \in LookupIds : SqNow(id) # NotFound}
TdStoredIds == {id \in LookupIds : TdNow(id) # NotFound}
SqMatching(query) == {id \in SqStoredIds : MatchesQuery(SqNow(id)[1], query)}
TdMatching(query) == {id \in TdStoredIds : MatchesQuery(TdNow(id)[1], query)}

\* the ids of a search result
ResultIds(rows) == {rows[i].id : i \in 1..Len(rows)}

\* the default limit, above the number of entities a store holds here
DefaultLimit == 10

\* C11 (search match set): with a limit at least the number of stored
\* entities, search_entities returns in each backend exactly the stored
\* entities whose label, description or some alias value contains the query
\* without regard to case; an entity that matches only through an alias is
\* returned by both backends.
C11_SearchMatchSet ==
  \A query \in Queries :
    /\ ResultIds(SqSearchEntities(sq, query, DefaultLimit)) = SqMatching(query)
    /\ ResultIds(TdSearchEntities(td, query, DefaultLimit)) = TdMatching(query)

\* C12 (search result bounds): search_entities returns at most limit results
\* and no entity id twice, in both backends, whatever the number of fields
\* and aliases an entity matches through.
C12_SearchBounds ==
  \A query \in Queries : \A limit \in Limits :
    LET s == SqSearchEntities(sq, query, limit)
        t == TdSearchEntities(td, query, limit)
    IN /\ Len(s) <= limit /\ Len(t) <= limit
       /\ \A i, j \in 1..Len(s) : s[i].id = s[j].id => i = j
       /\ \A i, j \in 1..Len(t) : t[i].id = t[j].id => i = j

\* an entity matches a query through its label, its description and two of
\* its aliases, and a limit below the number of matches cuts the result
C12_Witness ==
  \E query \in Queries : \E limit \in Limits \ {0} :
    /\ \E id \in SqStoredIds :
         LET e == SqNow(id)[1] IN
           /\ Contains(e.label, query) /\ Contains(e.description, query)
           /\ \E a, b \in AliasSet(e) :
                a # b /\ Contains(a.value, query) /\ Contains(b.value, query)
    /\ Cardinality(SqMatching(query)) > limit
    /\ Len(SqSearchEntities(sq, query, limit)) = limit
    /\ Len(TdSearchEntities(td, query, limit)) = limit

\* C13 (lazy schema creation): store_entities on a backend whose tables (or
\* collection) do not exist yet creates them and stores every valid record
\* of the batch, so that get_entity_by_id returns each of them, for a list of
\* records and for a dict id -> record alike.
C13_LazySchema ==
  (last.op = "store_entities" /\ ~preSq.schema)
  => /\ sq.schema
     /\ \A i \in 1..Len(last.recs) :
          (HasId(last.recs[i]) /\ ~last.injected[i])
          => /\ SqNow(last.recs[i].entity_id) # NotFound
             /\ TdNow(last.recs[i].entity_id) # NotFound

\* a dict id -> record was stored into stores that had no tables and no
\* documents, and both its records are read back from both backends
C13_Witness ==
  /\ last.op = "store_entities" /\ last.mapping
  /\ ~preSq.schema /\ preTd = EmptyCollection
  /\ Len(last.recs) = 2 /\ last.recs[1].entity_id # last.recs[2].entity_id
  /\ \A i \in 1..2 : /\ SqNow(last.recs[i].entity_id) # NotFound
                     /\ TdNow(last.recs[i].entity_id) # NotFound

\* the fields of an entity the frame is stated over: label, description, type,
\* aliases, and (property id, value, referenced entity id) of each statement
FrameView(found, idKey) ==
  IF found = NotFound THEN NotFound
  ELSE LET e == found[1]
           stmts == GetOr(e, "statements", <<>>)
       IN <<[label |-> GetOpt(e, "label"),
             description |-> GetOpt(e, "description"),
             type |-> GetOpt(e, "type"),
             aliases |-> GetOr(e, "aliases", <<>>),
             statements |-> [i \in 1..Len(stmts) |-> StatementTriple(stmts[i], idKey)]]>>

\* the id store_entity stores a record under
StoredUnder(r) == GetOr(r, "entity_id", "")

\* C19 (frame of an upsert): store_entity on a record with id A leaves every
\* other stored entity B as it was: get_entity_by_id(B) returns the same
\* label, description, type, aliases and statements before and after, in both
\* backends, whether the store succeeds or fails.
C19_UpsertFrame ==
  last.op = "store_entity" =>
    \A B \in LookupIds \ {StoredUnder(LastRecord)} :
      /\ FrameView(SqNow(B), "id") = FrameView(SqBefore(B), "id")
      /\ FrameView(TdNow(B), "property_id") = FrameView(TdBefore(B), "property_id")

\* a committed store_entity replaced the aliases and statements of A while
\* another entity B with aliases and statements is held by both backends
C19_Witness ==
  /\ StoredOne /\ HasId(LastRecord)
  /\ SqBefore(LastRecord.entity_id) # NotFound
  /\ SqNow(LastRecord.entity_id) # SqBefore(LastRecord.entity_id)
  /\ \E B \in LookupIds \ {LastRecord.entity_id} :
       /\ SqNow(B) # NotFound /\ TdNow(B) # NotFound
       /\ SqNow(B)[1].aliases # <<>> /\ SqNow(B)[1].statements # <<>>

\* C20 (reads before schema): on a relational backend on which neither
\* create_tables nor store_entities has run, get_entity_by_id returns None
\* and search_entities returns [] without raising, and a store_entity called
\* directly stores nothing and raises nothing.
C20_ReadsBeforeSchema ==
  ~sq.schema =>
    /\ \A id \in LookupIds : SqNow(id) = NotFound
    /\ \A query \in Queries : \A limit \in Limits :
         SqSearchEntities(sq, query, limit) = <<>>
    /\ last.op = "store_entity" => (sq = preSq /\ ~last.ok[1] /\ ~last.raised)

\* store_entity was called with a record with an id before any table
\* existed: the document backend holds it, the relational one does not
C20_Witness ==
  /\ ~sq.schema /\ last.op = "store_entity" /\ HasId(LastRecord)
  /\ ~last.injected[1]
  /\ TdNow(LastRecord.entity_id) # NotFound
  /\ SqNow(LastRecord.entity_id) = NotFound

\* C14 (harness failure isolation): when a natural_language_query call raises
\* during a timed run, run_performance_comparison does not terminate with
\* that exception; the later questions are still measured and the comparison
\* result is returned.
C14_FailureIsolated == ~(h.pc = "raised" /\ h.exc = "QueryError")

\* the calls of the log made for question k on a backend
RunsOf(k, backend) ==
  {j \in 1..Len(h.log) : h.log[j].q = k /\ h.log[j].backend = backend}

\* all timed loops are over
LoopsDone ==
  h.pc \in {"report", "returned"} \/ (h.pc = "raised" /\ h.exc = "ZeroDivisionError")

\* the relational (document) loop of the latest recorded question is over and
\* no later loop of that backend has begun
SqliteRecorded ==
  /\ h.results.SQLite.times # <<>>
  /\ LoopsDone \/ h.pc = "tinydb" \/ (h.pc = "sqlite" /\ h.i = 0)
TinydbRecorded ==
  /\ h.results.TinyDB.times # <<>>
  /\ LoopsDone \/ h.pc = "sqlite"

\* C15 (harness run accounting): for a question list Q and N >= 1 iterations
\* the harness calls natural_language_query exactly N times per question on
\* each backend, 2*N*|Q| calls in all; the latency recorded for a question
\* and a backend is the sum of the N elapsed times divided by N, and the
\* recorded result count is the size of the result of the first run, 0 when
\* that result is empty or None.
C15_RunAccounting ==
  /\ LoopsDone =>
       /\ Len(h.log) = 2 * h.iterations * Len(h.queries)
       /\ \A k \in 1..Len(h.queries) : \A backend \in {"SQLite", "TinyDB"} :
            Cardinality(RunsOf(k, backend)) = h.iterations
       /\ Len(h.results.SQLite.times) = Len(h.queries)
       /\ Len(h.results.TinyDB.times) = Len(h.queries)
  /\ SqliteRecorded =>
       LET k == Len(h.results.SQLite.times) IN
         /\ Len(h.sqlite_times) = h.iterations
         /\ SameFraction(h.results.SQLite.times[k],
                         Fraction(Sum(h.sqlite_times), h.iterations))
         /\ h.results.SQLite.counts[k] = ResultSize(h.first.SQLite)
  /\ TinydbRecorded =>
       LET k == Len(h.results.TinyDB.times) IN
         /\ Len(h.tinydb_times) = h.iterations
         /\ SameFraction(h.results.TinyDB.times[k],
                         Fraction(Sum(h.tinydb_times), h.iterations))
         /\ h.results.TinyDB.counts[k] = ResultSize(h.first.TinyDB)

\* the harness returned after two runs of each of two questions; the first
\* relational run of the last question gave None, the first document run a row
C15_Witness ==
  /\ h.pc = "returned" /\ h.iterations = 2 /\ Len(h.queries) = 2
  /\ h.first.SQLite = <<>> /\ h.first.TinyDB = << <<"row">> >>
  /\ h.results.SQLite.counts[2] = 0 /\ h.results.TinyDB.counts[2] = 1
  /\ h.sqlite_times = <<1, 0>>

\* call x is made before call y in the order of the harness
CallBefore(x, y) ==
  \/ x.q < y.q
  \/ x.q = y.q /\ x.backend = "SQLite" /\ y.backend = "TinyDB"
  \/ x.q = y.q /\ x.backend = y.backend /\ x.run < y.run

\* C16 (harness ordering): the calls are made one at a time; questions are
\* processed in list order, and within a question every run on the
\* relational backend is over before the first run on the document backend.
C16_Ordering ==
  \A a, b \in 1..Len(h.log) : a < b => CallBefore(h.log[a], h.log[b])

\* two questions were measured twice on each backend
C16_Witness ==
  /\ h.pc = "returned" /\ Len(h.queries) = 2 /\ h.iterations = 2
  /\ Len(h.log) = 8
  /\ h.log[2].backend = "SQLite" /\ h.log[3].backend = "TinyDB" /\ h.log[5].q = 2

\* C17 (harness winner label): in every question row and in the aggregate
\* row the backend reported as faster is the one whose average is strictly
\* lower, and the reported ratio is the slower average divided by the
\* faster one.
C17_WinnerLabel ==
  /\ \A k \in 1..Len(h.table) :
       /\ h.table[k].faster = "SQLite" => Less(h.table[k].sqlite, h.table[k].tinydb)
       /\ h.table[k].faster = "TinyDB" => Less(h.table[k].tinydb, h.table[k].sqlite)
  /\ h.conclusion # <<>> =>
       LET row == h.table[Len(h.table)] IN
         SameFraction(h.conclusion[1].times,
                      IF Less(row.sqlite, row.tinydb)
                      THEN Quotient(row.tinydb, row.sqlite)
                      ELSE Quotient(row.sqlite, row.tinydb))

\* some stored entity of a backend carries this label and a statement of
\* property pid
SqStates(label, pid) ==
  \E id \in SqStoredIds :
    /\ SqNow(id)[1].label = label
    /\ \E t \in StatementSet(SqNow(id)[1], "id") : t.property_id = <<pid>>
TdStates(label, pid) ==
  \E id \in TdStoredIds :
    /\ GetOr(TdNow(id)[1], "label", "") = label
    /\ \E t \in StatementSet(TdNow(id)[1], "property_id") : t.property_id = <<pid>>

\* C18 (unresolved query is not an error): on both backends
\* natural_language_query returns an empty sequence, and raises nothing, for
\* a question whose subject cannot be resolved (Atlantis), whose attribute
\* cannot be resolved (altitude), or whose subject has no statement of the
\* resolved property (the population of China, while no entity labelled
\* China states a population).
C18_UnresolvedIsEmpty ==
  /\ \A question \in {"What is the population of Atlantis?",
                      "What is the altitude of China?"} :
       /\ SqNaturalLanguageQuery(sq, question) = <<>>
       /\ TdNaturalLanguageQuery(td, question) = <<>>
  /\ ~SqStates("China", "P1082")
       => SqNaturalLanguageQuery(sq, "What is the population of China?") = <<>>
  /\ ~TdStates("China", "P1082")
       => TdNaturalLanguageQuery(td, "What is the population of China?") = <<>>

\* both backends answer the capital of China, in either wording, and have
\* no answer for its population
C18_Witness ==
  /\ SqNaturalLanguageQuery(sq, "What is the capital of China?") # <<>>
  /\ TdNaturalLanguageQuery(td, "What is China's capital?") # <<>>
  /\ SqNaturalLanguageQuery(sq, "What is the population of China?") = <<>>
  /\ TdNaturalLanguageQuery(td, "What is the population of China?") = <<>>
  /\ SqStates("China", "P36") /\ TdStates("China", "P36")

\* the ids of the sample entities, and what the relational backend held
\* before the latest call
SampleIds == {r.entity_id : r \in SeqToSet(SampleRecords)}
SqStoredIdsBefore == {id \in LookupIds : SqBefore(id) # NotFound}

\* C21 (sample-data seeding): from any prior state, after _add_sample_data
\* the document backend holds exactly the two sample entities Q148 and Q956,
\* all earlier documents removed; the relational backend holds Q148 and Q956
\* with the sample aliases and statements (each sample record on which the
\* engine does not fail) and keeps every other entity stored earlier; so
\* the two stores hold the same entity set only if the relational store
\* held no other entity before.
C21_SampleSeeding ==
  last.op = "_add_sample_data" =>
    /\ td = SampleRecords
    /\ TdStoredIds = SampleIds
    /\ \A i \in 1..Len(SampleRecords) :
         ~last.injected[i] =>
           LET found == SqNow(SampleRecords[i].entity_id) IN
             /\ last.ok[i]
             /\ found # NotFound
             /\ found[1].label = SampleRecords[i].label
             /\ found[1].description = SampleRecords[i].description
             /\ found[1].type = SampleRecords[i].type
             /\ CarriesListsOf(found[1], SampleRecords[i], "id")
    /\ SqStoredIdsBefore \subseteq SqStoredIds
    /\ \A B \in LookupIds \ SampleIds :
         FrameView(SqNow(B), "id") = FrameView(SqBefore(B), "id")
    /\ SqStoredIds = TdStoredIds => SqStoredIdsBefore \subseteq SampleIds

\* both backends held Q1 and another Q148 before the seeding; afterwards the
\* document backend has lost Q1 and the relational backend still returns it
C21_Witness ==
  /\ last.op = "_add_sample_data" /\ \A i \in 1..Len(last.ok) : last.ok[i]
  /\ SqBefore("Q1") # NotFound /\ TdBefore("Q1") # NotFound
  /\ SqBefore("Q148") # NotFound /\ SqBefore("Q148") # SqNow("Q148")
  /\ SqNow("Q1") # NotFound /\ TdNow("Q1") = NotFound
  /\ SqStoredIds # TdStoredIds

====
